---- MODULE Spec2Model ----
(***************************************************************************)
(* AndroidManifestExported: the CLI reads an AndroidManifest.xml, parses   *)
(* it with xml2js (explicitArray: false), keeps the components that are    *)
(* exported or own an intent-filter, and writes the filtered manifest.     *)
(*                                                                         *)
(* The model follows the refactored ManifestExtractor of                   *)
(* src/lib/extractor.js (lines 170-429) and src/bin/cli.js.  JavaScript    *)
(* values are tagged records, so that undefined, strings, arrays and       *)
(* objects (with their key insertion order) stay distinct.                 *)
(***************************************************************************)
EXTENDS Naturals, Sequences, FiniteSets

(***************************************************************************)
(* Bounds of the model.                                                    *)
(***************************************************************************)
\* Largest number of elements (application children plus manifest-level
\* permission declarations) of a generated document.
MaxNodes == 2
\* The same, for the documents given to a whole run of the CLI.
MaxFileNodes == 1
\* Largest number of write calls fs.writeFile needs for a document: one
\* for each 512 KiB of it.
MaxChunks == 2

(***************************************************************************)
(* JavaScript values.                                                      *)
(***************************************************************************)
Undef == [t |-> "undefined"]
Null == [t |-> "null"]
Str(s) == [t |-> "string", s |-> s]
Arr(items) == [t |-> "array", items |-> items]
Obj(keys, val) == [t |-> "object", keys |-> keys, val |-> val]
EmptyObj == Obj(<<>>, <<>>)

IsObj(v) == v.t = "object"
IsArr(v) == v.t = "array"
IsNullish(v) == v.t \in {"undefined", "null"}

\* ToBoolean: undefined, null and the empty string are falsy; every object,
\* array and non-empty string is truthy.
Truthy(v) ==
  CASE v.t = "string" -> v.s # ""
    [] v.t \in {"object", "array"} -> TRUE
    [] OTHER -> FALSE

HasKey(o, k) == IsObj(o) /\ k \in DOMAIN o.val

\* o[k] for a non-nullish o and a key that is neither an index nor "length":
\* an own property of an object, undefined on a string or an array.
Get(o, k) == IF HasKey(o, k) THEN o.val[k] ELSE Undef

\* o?.[k]: undefined when o is nullish.
GetOpt(o, k) == IF IsNullish(o) THEN Undef ELSE Get(o, k)

\* o[k] = v: a new key goes to the end of the insertion order.
Put(o, k, v) ==
  Obj(IF k \in DOMAIN o.val THEN o.keys ELSE Append(o.keys, k),
      [x \in (DOMAIN o.val) \cup {k} |-> IF x = k THEN v ELSE o.val[x]])

\* delete o[k]
Delete(o, k) ==
  Obj(SelectSeq(o.keys, LAMBDA x : x # k),
      [x \in (DOMAIN o.val) \ {k} |-> o.val[x]])

\* a || b
OrElse(a, b) == IF Truthy(a) THEN a ELSE b

(***************************************************************************)
(* XML documents: an element has a name, attributes in document order,     *)
(* blank character data, and child elements.                               *)
(***************************************************************************)
Elem(name, attrs, text, kids) ==
  [name |-> name, attrs |-> attrs, text |-> text, kids |-> kids]

\* The attributes of an element as the object xml2js stores under "$".
RECURSIVE AttrsObj(_, _, _)
AttrsObj(attrs, i, acc) ==
  IF i > Len(attrs) THEN acc
  ELSE AttrsObj(attrs, i + 1, Put(acc, attrs[i][1], Str(attrs[i][2])))

\* xml2js with explicitArray: false: the first child of a name is stored as
\* is, the second turns the value into an array, later ones are pushed.
AssignOrPush(obj, key, v) ==
  IF ~HasKey(obj, key) THEN Put(obj, key, v)
  ELSE IF IsArr(obj.val[key])
       THEN Put(obj, key, Arr(Append(obj.val[key].items, v)))
       ELSE Put(obj, key, Arr(<<obj.val[key], v>>))

\* xml2js closetag: an element with neither attributes nor children becomes
\* its (blank) character data, the empty string for <x/>.
RECURSIVE ParseElem(_), ParseKids(_, _, _)
ParseElem(e) ==
  LET base == IF e.attrs = <<>> THEN EmptyObj
              ELSE Put(EmptyObj, "$", AttrsObj(e.attrs, 1, EmptyObj))
      obj == ParseKids(e.kids, 1, base)
  IN IF obj.keys = <<>> THEN Str(e.text) ELSE obj

ParseKids(kids, i, acc) ==
  IF i > Len(kids) THEN acc
  ELSE ParseKids(kids, i + 1, AssignOrPush(acc, kids[i].name, ParseElem(kids[i])))

\* parser.parseStringPromise on a well-formed text: null for a blank text,
\* otherwise an object with the root element under its name.
NoRoot == Elem("", <<>>, "", <<>>)
ParseString(root) ==
  IF root = NoRoot THEN Null
  ELSE Put(EmptyObj, root.name, ParseElem(root))

(***************************************************************************)
(* The export filter (refactored ManifestExtractor).                       *)
(***************************************************************************)
COMPONENT_TYPES == <<"activity", "service", "receiver", "provider">>
EXPORTED == "android:exported"
NAME == "android:name"
PermissionTypes == <<"permission", "uses-permission">>

\* _normalizeToArray
NormalizeToArray(input) == IF IsArr(input) THEN input ELSE Arr(<<input>>)

\* _isComponentExported without the early return on "false".
IsComponentExportedIgnoringFalse(component) ==
  GetOpt(Get(component, "$"), EXPORTED) = Str("true")
    \/ Truthy(Get(component, "intent-filter"))

\* _isComponentExported returning hasIntentFilter alone.
IsComponentExportedOnlyWithFilter(component) ==
  LET exportedAttribute == GetOpt(Get(component, "$"), EXPORTED)
      hasIntentFilter == Truthy(Get(component, "intent-filter"))
  IN IF exportedAttribute = Str("false") THEN FALSE
     ELSE hasIntentFilter

\* _isComponentExported
IsComponentExported(component) ==
  LET exportedAttribute == GetOpt(Get(component, "$"), EXPORTED)
      hasIntentFilter == Truthy(Get(component, "intent-filter"))
  IN IF exportedAttribute = Str("false") THEN FALSE
     ELSE LET isExplicitlyExported == exportedAttribute = Str("true")
          IN isExplicitlyExported \/ hasIntentFilter

\* _createEmptyManifest: the manifest attributes, and an application with
\* its attributes (or {}) and four empty arrays, in this key order.
CreateEmptyManifest(manifest) ==
  LET app == Obj(<<"$", "activity", "service", "receiver", "provider">>,
                 [k \in {"$", "activity", "service", "receiver", "provider"} |->
                    IF k = "$"
                    THEN OrElse(GetOpt(Get(manifest, "application"), "$"), EmptyObj)
                    ELSE Arr(<<>>)])
  IN Obj(<<"$", "application">>,
         [k \in {"$", "application"} |->
            IF k = "$" THEN Get(manifest, "$") ELSE app])

\* The loop of _preserveManifestPermissions over the two permission types.
RECURSIVE PreservePermissionsFrom(_, _, _)
PreservePermissionsFrom(source, target, i) ==
  IF i > Len(PermissionTypes) THEN target
  ELSE LET permissionType == PermissionTypes[i]
           v == Get(source, permissionType)
       IN PreservePermissionsFrom(
            source,
            IF Truthy(v)
            THEN Put(target, permissionType, IF IsArr(v) THEN v ELSE Arr(<<v>>))
            ELSE target,
            i + 1)

\* _preserveManifestPermissions wrapping without the Array.isArray test.
PreserveManifestPermissionsAlwaysWrap(source, target) ==
  LET p == Get(source, "permission")
      u == Get(source, "uses-permission")
      t1 == IF Truthy(p) THEN Put(target, "permission", Arr(<<p>>)) ELSE target
  IN IF Truthy(u) THEN Put(t1, "uses-permission", Arr(<<u>>)) ELSE t1

\* _preserveManifestPermissions
PreserveManifestPermissions(source, target) ==
  PreservePermissionsFrom(source, target, 1)

\* A console line: what it says, and the component or the count it names.
Line(msg) == [msg |-> msg, kind |-> "", name |-> "", n |-> 0]

\* _logComponentFound: the kind and component.$?.['android:name'] || 'unnamed'
LogComponentFound(componentType, component) ==
  LET name == OrElse(GetOpt(Get(component, "$"), NAME), Str("unnamed"))
  IN [msg |-> "component", kind |-> componentType, name |-> name.s, n |-> 0]

\* The loop of _extractComponentType over the normalized components: the
\* target array after the pushes.
RECURSIVE PushExported(_, _, _)
PushExported(components, i, target) ==
  IF i > Len(components) THEN target
  ELSE PushExported(components, i + 1,
                    IF IsComponentExported(components[i])
                    THEN Append(target, components[i])
                    ELSE target)

\* _extractComponentType counting a kind once however many it pushed.
ExtractComponentTypeUncounted(sourceApp, targetApp, componentType) ==
  IF ~Truthy(Get(sourceApp, componentType)) THEN [app |-> targetApp, found |-> 0, lines |-> <<>>]
  ELSE LET components == NormalizeToArray(Get(sourceApp, componentType)).items
           pushed == PushExported(components, 1, Get(targetApp, componentType).items)
       IN [app |-> Put(targetApp, componentType, Arr(pushed)),
           found |-> IF Len(pushed) > 0 THEN 1 ELSE 0,
           lines |-> [i \in 1..Len(pushed) |-> LogComponentFound(componentType, pushed[i])]]

\* _extractComponentType on a source application that is not nullish: the
\* target application after the pushes, the number found, and the lines
\* of _logComponentFound.
ExtractComponentType(sourceApp, targetApp, componentType) ==
  IF ~Truthy(Get(sourceApp, componentType)) THEN [app |-> targetApp, found |-> 0, lines |-> <<>>]
  ELSE LET components == NormalizeToArray(Get(sourceApp, componentType)).items
           before == Get(targetApp, componentType).items
           pushed == PushExported(components, 1, before)
       IN [app |-> Put(targetApp, componentType, Arr(pushed)),
           found |-> Len(pushed) - Len(before),
           lines |-> [i \in 1..(Len(pushed) - Len(before)) |->
                        LogComponentFound(componentType, pushed[Len(before) + i])]]

\* _cleanupEmptyArrays: Object.keys(application).forEach(delete the empty arrays).
RECURSIVE CleanupFrom(_, _, _)
CleanupFrom(application, keys, i) ==
  IF i > Len(keys) THEN application
  ELSE LET v == application.val[keys[i]]
       IN CleanupFrom(
            IF IsArr(v) /\ Len(v.items) = 0 THEN Delete(application, keys[i])
            ELSE application,
            keys, i + 1)

\* _cleanupEmptyArrays
CleanupEmptyArrays(application) ==
  CleanupFrom(application, application.keys, 1)

\* The loop of _extractExportedComponents over the four component types.
RECURSIVE ExtractTypesFrom(_, _, _, _, _)
ExtractTypesFrom(sourceApp, targetApp, i, found, lines) ==
  IF i > Len(COMPONENT_TYPES)
  THEN [app |-> targetApp, total |-> found, lines |-> lines]
  ELSE LET r == ExtractComponentType(sourceApp, targetApp, COMPONENT_TYPES[i])
       IN ExtractTypesFrom(sourceApp, r.app, i + 1, found + r.found, lines \o r.lines)

\* _extractExportedComponents(manifest): reading a property of an undefined
\* application in _extractComponentType throws a TypeError; otherwise the
\* filtered manifest, the total that the summary line reports, and the
\* lines a verbose run prints.
ExtractExportedComponents(manifest) ==
  LET empty == CreateEmptyManifest(manifest)
      extractedManifest == PreserveManifestPermissions(manifest, empty)
      sourceApp == Get(manifest, "application")
  IN IF IsNullish(sourceApp)
     THEN [threw |-> TRUE, tree |-> Undef, total |-> 0,
           lines |-> <<Line("Searching for exported components")>>]
     ELSE LET r == ExtractTypesFrom(sourceApp, Get(extractedManifest, "application"),
                                    1, 0, <<>>)
          IN [threw |-> FALSE,
              tree |-> Put(extractedManifest, "application", CleanupEmptyArrays(r.app)),
              total |-> r.total,
              lines |-> <<Line("Searching for exported components")>> \o r.lines
                          \o <<[Line("Found exported components") EXCEPT !.n = r.total]>>]

(***************************************************************************)
(* The original ManifestExtractor (src/lib/extractor.js, lines 1-169): the *)
(* same filter written as four blocks, one per component kind.             *)
(***************************************************************************)
\* isExportedOrHasIntentFilter: the truth value of what it returns, which
\* is false, true, or the intent-filter property itself.
IsExportedOrHasIntentFilter(component) ==
  LET isExplicitlyExported == GetOpt(Get(component, "$"), EXPORTED) = Str("true")
      hasIntentFilter == Get(component, "intent-filter")
      isExplicitlyNotExported == GetOpt(Get(component, "$"), EXPORTED) = Str("false")
  IN IF isExplicitlyNotExported THEN FALSE
     ELSE isExplicitlyExported \/ Truthy(hasIntentFilter)

\* The console.log of a block: the kind and
\* component.$?.['android:name'] || 'unnamed'.  The template of the provider
\* block has two spaces between the icon and the label, the others one.
OriginalComponentLine(kind, spaces, component) ==
  LET name == OrElse(GetOpt(Get(component, "$"), NAME), Str("unnamed"))
  IN [msg |-> IF spaces = 1 THEN "component" ELSE "component, two spaces",
      kind |-> kind, name |-> name.s, n |-> 0]

\* The for loop of a block: st holds extractedManifest, totalFound and the
\* lines logged so far.
RECURSIVE OriginalLoop(_, _, _, _, _)
OriginalLoop(components, i, kind, spaces, st) ==
  IF i > Len(components) THEN st
  ELSE LET component == components[i]
           application == Get(st.tree, "application")
           pushed == Arr(Append(Get(application, kind).items, component))
       IN OriginalLoop(components, i + 1, kind, spaces,
            IF IsExportedOrHasIntentFilter(component)
            THEN [tree |-> Put(st.tree, "application", Put(application, kind, pushed)),
                  total |-> st.total + 1,
                  lines |-> Append(st.lines, OriginalComponentLine(kind, spaces, component))]
            ELSE st)

\* One block: if (manifest.application.<kind>) { normalize; loop }
OriginalBlock(manifest, kind, spaces, st) ==
  LET source == Get(Get(manifest, "application"), kind)
  IN IF ~Truthy(source) THEN st
     ELSE OriginalLoop(IF IsArr(source) THEN source.items ELSE <<source>>,
                       1, kind, spaces, st)

\* The four blocks, in the order of the source.
ExtractActivities(manifest, st) == OriginalBlock(manifest, "activity", 1, st)
ExtractServices(manifest, st) == OriginalBlock(manifest, "service", 1, st)
ExtractReceivers(manifest, st) == OriginalBlock(manifest, "receiver", 1, st)
ExtractProviders(manifest, st) == OriginalBlock(manifest, "provider", 2, st)

\* Object.keys(extractedManifest.application).forEach(delete the empty arrays)
RECURSIVE OriginalCleanupFrom(_, _, _)
OriginalCleanupFrom(application, keys, i) ==
  IF i > Len(keys) THEN application
  ELSE LET v == application.val[keys[i]]
       IN OriginalCleanupFrom(
            IF IsArr(v) /\ Len(v.items) = 0 THEN Delete(application, keys[i])
            ELSE application,
            keys, i + 1)

\* extractExportedComponents(manifest): manifest.application.$ throws a
\* TypeError when the manifest has no application, before any line is
\* logged; otherwise the filtered manifest, totalFound, and the lines a
\* verbose run prints.
OriginalExtractExportedComponents(manifest) ==
  LET application == Get(manifest, "application")
  IN IF IsNullish(application)
     THEN [threw |-> TRUE, tree |-> Undef, total |-> 0, lines |-> <<>>]
     ELSE LET app == Obj(<<"$", "activity", "service", "receiver", "provider">>,
                         [k \in {"$", "activity", "service", "receiver", "provider"} |->
                            IF k = "$" THEN OrElse(Get(application, "$"), EmptyObj)
                            ELSE Arr(<<>>)])
              empty == Obj(<<"$", "application">>,
                           [k \in {"$", "application"} |->
                              IF k = "$" THEN Get(manifest, "$") ELSE app])
              p == Get(manifest, "permission")
              withPermission ==
                IF Truthy(p)
                THEN Put(empty, "permission", IF IsArr(p) THEN p ELSE Arr(<<p>>))
                ELSE empty
              u == Get(manifest, "uses-permission")
              withUsesPermission ==
                IF Truthy(u)
                THEN Put(withPermission, "uses-permission",
                         IF IsArr(u) THEN u ELSE Arr(<<u>>))
                ELSE withPermission
              st0 == [tree |-> withUsesPermission, total |-> 0,
                      lines |-> <<Line("Searching for exported components")>>]
              st1 == ExtractActivities(manifest, st0)
              st2 == ExtractServices(manifest, st1)
              st3 == ExtractReceivers(manifest, st2)
              st4 == ExtractProviders(manifest, st3)
              extractedApp == Get(st4.tree, "application")
          IN [threw |-> FALSE,
              tree |-> Put(st4.tree, "application",
                           OriginalCleanupFrom(extractedApp, extractedApp.keys, 1)),
              total |-> st4.total,
              lines |-> Append(st4.lines,
                               [Line("Found exported components") EXCEPT !.n = st4.total])]

(***************************************************************************)
(* xml2js Builder (rootName: "manifest"): the document that buildObject    *)
(* renders from a tree.  Keys are rendered in insertion order.             *)
(***************************************************************************)
AttrsOf(v) ==
  IF IsObj(v) THEN [i \in 1..Len(v.keys) |-> <<v.keys[i], v.val[v.keys[i]].s>>]
  ELSE <<>>

RECURSIVE Render(_, _), RenderKeys(_, _, _), RenderEntries(_, _, _)
\* render(element, obj) for the element called name
Render(name, v) ==
  IF ~IsObj(v) THEN Elem(name, <<>>, IF v.t = "string" THEN v.s ELSE "", <<>>)
  ELSE Elem(name, AttrsOf(Get(v, "$")), "", RenderKeys(v, 1, <<>>))

RenderKeys(v, i, acc) ==
  IF i > Len(v.keys) THEN acc
  ELSE LET key == v.keys[i]
           child == v.val[key]
       IN RenderKeys(v, i + 1,
            IF key = "$" THEN acc
            ELSE IF IsArr(child) THEN acc \o RenderEntries(key, child.items, 1)
            ELSE acc \o <<Render(key, child)>>)

RenderEntries(key, items, i) ==
  IF i > Len(items) THEN <<>>
  ELSE <<Render(key, items[i])>> \o RenderEntries(key, items, i + 1)

BuildObject(tree) == Render("manifest", tree)

(***************************************************************************)
(* Input documents.                                                        *)
(***************************************************************************)
Action(n) == Elem("action", <<<<NAME, n>>>>, "", <<>>)
Category(n) == Elem("category", <<<<NAME, n>>>>, "", <<>>)
IntentFilter(kids) == Elem("intent-filter", <<>>, "", kids)
\* <intent-filter/>
EmptyIntentFilter == IntentFilter(<<>>)
ViewFilter == IntentFilter(<<Action("VIEW"), Category("DEFAULT")>>)
BootFilter == IntentFilter(<<Action("BOOT_COMPLETED")>>)
MetaData == Elem("meta-data", <<<<NAME, "meta">>>>, "", <<>>)

\* A component of a kind: its name and exported attributes (both optional)
\* and its children.
Named(n) == <<<<NAME, n>>>>
Exported(n, e) == <<<<NAME, n>>, <<EXPORTED, e>>>>
Component(kind, attrs, kids) == Elem(kind, attrs, "", kids)

\* The attribute and child combinations of the generated components.
ComponentShapes ==
  { [attrs |-> Exported(".A", "true"), kids |-> <<>>],
    [attrs |-> Exported(".B", "true"), kids |-> <<ViewFilter, MetaData>>],
    [attrs |-> Exported(".C", "false"), kids |-> <<ViewFilter>>],
    [attrs |-> Named(".D"), kids |-> <<ViewFilter>>],
    [attrs |-> <<<<EXPORTED, "True">>>>, kids |-> <<>>],
    [attrs |-> <<<<EXPORTED, "FALSE">>>>, kids |-> <<BootFilter, BootFilter>>],
    [attrs |-> Named(".F"), kids |-> <<EmptyIntentFilter>>],
    [attrs |-> <<>>, kids |-> <<>>] }

Kinds == {COMPONENT_TYPES[i] : i \in DOMAIN COMPONENT_TYPES}

Components == {Component(k, sh.attrs, sh.kids) : k \in Kinds, sh \in ComponentShapes}

\* Manifest-level permission declarations; <permission/> has no attribute.
Permissions ==
  { Elem("permission", Named("P1"), "", <<>>),
    Elem("permission", Named("P2"), "", <<>>),
    Elem("permission", <<>>, "", <<>>),
    Elem("uses-permission", Named("U1"), "", <<>>),
    Elem("uses-permission", Named("U2"), "", <<>>) }

Application(attrs, kids) == Elem("application", attrs, "", kids)
Manifest(attrs, kids) == Elem("manifest", attrs, "", kids)

\* Attributes of the manifest and of the application: on neither or on both.
AttrVariants ==
  { [m |-> <<>>, a |-> <<>>],
    [m |-> <<<<"package", "com.example">>>>, a |-> <<<<"android:label", "app">>>>] }

\* The example manifest of the README.
ReadmeExample ==
  Manifest(<<>>, <<Application(<<>>, <<
    Component("activity", Exported(".MainActivity", "false"), <<>>),
    Component("activity", Exported(".ExportedActivity", "true"), <<ViewFilter>>),
    Component("service", Exported(".BackgroundService", "false"), <<>>),
    Component("receiver", Exported(".BootReceiver", "true"), <<BootFilter>>) >>)>>)

\* Three activities (exported, without filter, with filter) between
\* components of the other kinds given in another order than the filter's.
InterleavedExample ==
  Manifest(<<<<"package", "com.example">>>>, <<
    Elem("uses-permission", Named("U1"), "", <<>>),
    Elem("permission", Named("P1"), "", <<>>),
    Application(<<<<"android:label", "app">>>>, <<
      Component("provider", Exported(".P", "true"), <<>>),
      Component("activity", Exported(".A", "true"), <<>>),
      Component("receiver", Named(".R"), <<BootFilter>>),
      Component("activity", Named(".A2"), <<>>),
      Component("service", Exported(".S", "false"), <<BootFilter>>),
      Component("activity", Named(".A3"), <<ViewFilter>>) >>),
    Elem("uses-permission", Named("U2"), "", <<>>) >>)

\* The examples, <manifest/>, a manifest holding only white space, another
\* root element, and the blank text (NoRoot).
FixedRoots ==
  { ReadmeExample, InterleavedExample, Manifest(<<>>, <<>>),
    Elem("manifest", <<>>, " ", <<>>), Elem("root", <<>>, "", <<>>), NoRoot }

\* The documents that are run with every output path: the fixed roots, one
\* exported activity, an empty application, and a manifest without
\* application.
OutputExamples ==
  FixedRoots \cup
  { Manifest(<<>>, <<Application(<<>>, <<Component("activity", Exported(".A", "true"), <<>>)>>)>>),
    Manifest(<<<<"package", "com.example">>>>, <<Application(<<>>, <<>>)>>),
    Manifest(<<<<"package", "com.example">>>>, <<Elem("uses-permission", Named("U1"), "", <<>>)>>) }

(***************************************************************************)
(* One run of the CLI: extractManifest calls extractor.extract.            *)
(***************************************************************************)
VARIABLES
  pc,           \* where the run is
  input,        \* the input file: readable, wellFormed, root; and the
                \* size of the document (chunks); and the output path:
                \* writable, room, earlier
  verbose,      \* options.verbose
  result,       \* what parseStringPromise resolved with
  manifest,     \* result.manifest
  extracted,    \* the return value of _extractExportedComponents
  totalFound,   \* totalFound of _extractExportedComponents
  writes,       \* the documents fs.writeFile wrote in full, in order
  outputFile,   \* what is at the output path
  stdout,       \* console.log lines
  stderr,       \* console.error lines
  exitCode,     \* the process exit status
  error,        \* the message of the error thrown, if any
  again,        \* the filter applied to its own output
  original      \* the run of the original extractor on the same input

vars == <<pc, input, verbose, result, manifest, extracted, totalFound, writes,
          outputFile, stdout, stderr, exitCode, error, again, original>>

NotRun == [ran |-> FALSE, threw |-> FALSE, tree |-> Undef, total |-> 0]

NoManifestMessage == "Invalid AndroidManifest.xml file - no manifest root element found"

\* What is at the output path: nothing, the output of an earlier run, an
\* empty file (fs.writeFile opens with flag 'w', which creates or
\* truncates), the bytes of a document that the first calls of write put
\* there, or a whole document.
NoFile == [t |-> "absent"]
EarlierOutput == [t |-> "file", holds |-> "earlier output"]
EmptyFile == [t |-> "file", holds |-> "nothing"]
PartOfDocument(doc, calls) ==
  [t |-> "file", holds |-> "part of the document", doc |-> doc, calls |-> calls]
DocumentFile(doc) == [t |-> "file", holds |-> "document", doc |-> doc]

\* The number of write calls that have put bytes in the file.
CallsWritten(file) ==
  IF file.t = "file" /\ file.holds = "part of the document" THEN file.calls ELSE 0

\* The document and the output path of a run.  chunks is the number of
\* write calls the document takes.  writable: fs.writeFile can open the
\* path (EACCES otherwise).  room is the number of write calls that put
\* bytes in the file before the size limit of the file is reached, the
\* last of them a short write; the call after them fails with EFBIG.  With
\* room > chunks the whole document fits.
OutputPaths ==
  UNION { { [writable |-> TRUE, chunks |-> c, room |-> r, earlier |-> e] :
              r \in 0..(c + 1), e \in BOOLEAN } : c \in 1..MaxChunks }
  \cup { [writable |-> FALSE, chunks |-> 1, room |-> 2, earlier |-> e] : e \in BOOLEAN }

\* A small document and an output path that takes it.
GoodOutputPath == [writable |-> TRUE, chunks |-> 1, room |-> 2, earlier |-> FALSE]

\* A small document, no earlier output, and a path that can be opened or
\* cannot.
PlainOutputPaths ==
  { GoodOutputPath,
    [writable |-> FALSE, chunks |-> 1, room |-> 2, earlier |-> FALSE] }

\* A readable, well-formed input file with root element r, and the output
\* path o.
File(r, o) ==
  [readable |-> TRUE, wellFormed |-> TRUE, root |-> r, writable |-> o.writable,
   chunks |-> o.chunks, room |-> o.room, earlier |-> o.earlier]

\* One write call of fs.writeFile on the opened file: it fails when the
\* size limit is reached; otherwise it puts bytes in the file, which then
\* holds the document when this was its last chunk and all of it fitted.
WriteCall(file, doc, path) ==
  LET k == CallsWritten(file)
  IN IF k >= path.room \/ k >= path.chunks
     THEN [outcome |-> "EFBIG", file |-> file]
     ELSE IF k + 1 = path.chunks /\ path.room > k + 1
     THEN [outcome |-> "all", file |-> DocumentFile(doc)]
     ELSE [outcome |-> "part", file |-> PartOfDocument(doc, k + 1)]

\* What is at the output path before the run.
OutputBefore(file) == IF file.earlier THEN EarlierOutput ELSE NoFile

\* The original extract has not been called.
OriginalNotRun(file) ==
  [pc |-> "start", result |-> Undef, tree |-> Undef, total |-> 0,
   writes |-> <<>>, outputFile |-> OutputBefore(file), stdout |-> <<>>,
   stderr |-> <<>>, exitCode |-> 0, error |-> "", reads |-> ""]

\* The input is a well-formed text of at most n elements under the
\* manifest and the application (permission declarations and components
\* together): a manifest with an application, a manifest without, or one
\* of the fixed roots.
WellFormedInput(n, outputs) ==
  \E o \in outputs :
    \/ \E v \in AttrVariants, p \in 0..n :
         \E perms \in [1..p -> Permissions], m \in 0..(n - p) :
           \E kids \in [1..m -> Components] :
             input = File(Manifest(v.m, perms \o <<Application(v.a, kids)>>), o)
    \/ \E v \in AttrVariants, p \in 0..n :
         \E perms \in [1..p -> Permissions] :
           /\ v.m # <<>> \/ p > 0
           /\ input = File(Manifest(v.m, perms), o)
    \/ \E r \in FixedRoots : input = File(r, o)

\* The input files: unreadable, not well-formed, or well-formed.  The
\* generated documents go to a plain output path, the examples to every
\* output path.
Init ==
  /\ pc = "start"
  /\ \/ \E e \in BOOLEAN :
          input = [readable |-> FALSE, wellFormed |-> FALSE, root |-> NoRoot,
                   writable |-> TRUE, chunks |-> 1, room |-> 2, earlier |-> e]
     \/ \E e \in BOOLEAN :
          input = [readable |-> TRUE, wellFormed |-> FALSE, root |-> NoRoot,
                   writable |-> TRUE, chunks |-> 1, room |-> 2, earlier |-> e]
     \/ WellFormedInput(MaxFileNodes, PlainOutputPaths)
     \/ \E r \in OutputExamples, o \in OutputPaths : input = File(r, o)
  /\ verbose \in BOOLEAN
  /\ result = Undef
  /\ manifest = Undef
  /\ extracted = Undef
  /\ totalFound = 0
  /\ writes = <<>>
  /\ outputFile = OutputBefore(input)
  /\ stdout = <<>>
  /\ stderr = <<>>
  /\ exitCode = 0
  /\ error = ""
  /\ again = NotRun
  /\ original = OriginalNotRun(input)

\* _logIfVerbose
LogIfVerbose(v, out, lines) == IF v THEN out \o lines ELSE out

\* A rejected await or a throw inside extract: control goes to the catch
\* block of extractManifest.
Throw(message) ==
  /\ pc' = "caught"
  /\ error' = message

\* extract up to the first await: fs.readFile(inputPath, 'utf8')
ReadFile ==
  /\ pc = "start"
  /\ stdout' = LogIfVerbose(verbose, stdout, <<Line("Reading AndroidManifest.xml")>>)
  /\ IF input.readable
     THEN pc' = "read" /\ UNCHANGED error
     ELSE Throw("ENOENT")
  /\ UNCHANGED <<input, verbose, result, manifest, extracted, totalFound, writes,
                 outputFile, stderr, exitCode, again, original>>

\* parser.parseStringPromise(xmlContent)
ParseXml ==
  /\ pc = "read"
  /\ IF input.wellFormed
     THEN /\ result' = ParseString(input.root)
          /\ pc' = "parsed"
          /\ UNCHANGED error
     ELSE /\ Throw("parse error")
          /\ UNCHANGED result
  /\ UNCHANGED <<input, verbose, manifest, extracted, totalFound, writes,
                 outputFile, stdout, stderr, exitCode, again, original>>

\* if (!result?.manifest) throw ...; return result.manifest
FindManifestRoot ==
  /\ pc = "parsed"
  /\ IF ~Truthy(GetOpt(result, "manifest"))
     THEN /\ Throw(NoManifestMessage)
          /\ UNCHANGED manifest
     ELSE /\ manifest' = Get(result, "manifest")
          /\ pc' = "validated"
          /\ UNCHANGED error
  /\ UNCHANGED <<input, verbose, result, extracted, totalFound, writes,
                 outputFile, stdout, stderr, exitCode, again, original>>

\* The filter step with a TypeError of the filter swallowed: the run goes on
\* with the empty manifest.
ExtractComponentsSwallowing ==
  /\ pc = "validated"
  /\ LET r == ExtractExportedComponents(manifest)
     IN /\ extracted' = IF r.threw THEN CreateEmptyManifest(manifest) ELSE r.tree
        /\ totalFound' = r.total
        /\ stdout' = LogIfVerbose(verbose, stdout, r.lines)
  /\ pc' = "extracted"
  /\ UNCHANGED <<input, verbose, result, manifest, writes, outputFile, stderr,
                 exitCode, error, again, original>>

\* this._extractExportedComponents(manifest, verbose); when it returns,
\* _writeOutputFile builds the document and calls fs.writeFile in the same
\* turn, and the file is opened and written later.
ExtractComponents ==
  /\ pc = "validated"
  /\ LET r == ExtractExportedComponents(manifest)
     IN IF r.threw
        THEN /\ Throw("TypeError")
             /\ stdout' = LogIfVerbose(verbose, stdout, r.lines)
             /\ UNCHANGED <<extracted, totalFound>>
        ELSE /\ extracted' = r.tree
             /\ totalFound' = r.total
             /\ stdout' = LogIfVerbose(verbose, stdout, r.lines)
             /\ pc' = "extracted"
             /\ UNCHANGED error
  /\ UNCHANGED <<input, verbose, result, manifest, writes, outputFile, stderr,
                 exitCode, again, original>>

\* fs.writeFile(outputPath, outputXml), first part: the output path is
\* opened, which creates the file or truncates the earlier output; the
\* promise rejects when the path cannot be opened.
OpenOutputFile ==
  /\ pc = "extracted"
  /\ IF input.writable
     THEN /\ outputFile' = EmptyFile
          /\ pc' = "opened"
          /\ UNCHANGED error
     ELSE /\ Throw("EACCES")
          /\ UNCHANGED outputFile
  /\ UNCHANGED <<input, verbose, result, manifest, extracted, totalFound, writes,
                 stdout, stderr, exitCode, again, original>>

\* fs.writeFile, one write call: a chunk of builder.buildObject's document
\* goes to the opened file.  After the last chunk the promise resolves;
\* when the call fails the promise rejects and the file keeps the bytes
\* of the calls before.
WriteOutputFile ==
  /\ pc \in {"opened", "writing"}
  /\ LET w == WriteCall(outputFile, BuildObject(extracted), input)
     IN /\ outputFile' = w.file
        /\ IF w.outcome = "EFBIG"
           THEN Throw("EFBIG") /\ UNCHANGED writes
           ELSE /\ pc' = IF w.outcome = "all" THEN "flushed" ELSE "writing"
                /\ writes' = IF w.outcome = "all"
                             THEN Append(writes, BuildObject(extracted))
                             ELSE writes
                /\ UNCHANGED error
  /\ UNCHANGED <<input, verbose, result, manifest, extracted, totalFound,
                 stdout, stderr, exitCode, again, original>>

\* extract after the await of _writeOutputFile: the last line of a verbose
\* run; extract resolves.
LogOutputWritten ==
  /\ pc = "flushed"
  /\ stdout' = LogIfVerbose(verbose, stdout, <<Line("Output written")>>)
  /\ pc' = "written"
  /\ UNCHANGED <<input, verbose, result, manifest, extracted, totalFound, writes,
                 outputFile, stderr, exitCode, error, again, original>>

\* extractManifest after extract resolved: the success line
CliSuccess ==
  /\ pc = "written"
  /\ stdout' = Append(stdout, Line("Exported components extracted"))
  /\ pc' = "done"
  /\ UNCHANGED <<input, verbose, result, manifest, extracted, totalFound, writes,
                 outputFile, stderr, exitCode, error, again, original>>

\* extractManifest's catch block: console.error, process.exit(1)
CliError ==
  /\ pc = "caught"
  /\ stderr' = Append(stderr, error)
  /\ exitCode' = 1
  /\ pc' = "exited"
  /\ UNCHANGED <<input, verbose, result, manifest, extracted, totalFound, writes,
                 outputFile, stdout, error, again, original>>

Next ==
  \/ ReadFile
  \/ ParseXml
  \/ FindManifestRoot
  \/ ExtractComponents
  \/ OpenOutputFile
  \/ WriteOutputFile
  \/ LogOutputWritten
  \/ CliSuccess
  \/ CliError

Spec == Init /\ [][Next]_vars

(***************************************************************************)
(* The filter as a function of the parsed manifest: every manifest that    *)
(* _parseManifestFile can return is filtered, and the result is filtered   *)
(* once more.                                                              *)
(***************************************************************************)
InitFilter ==
  /\ pc = "validated"
  /\ WellFormedInput(MaxNodes, {GoodOutputPath})
  /\ verbose = FALSE
  /\ result = ParseString(input.root)
  /\ Truthy(GetOpt(result, "manifest"))
  /\ manifest = Get(result, "manifest")
  /\ extracted = Undef
  /\ totalFound = 0
  /\ writes = <<>>
  /\ outputFile = OutputBefore(input)
  /\ stdout = <<>>
  /\ stderr = <<>>
  /\ exitCode = 0
  /\ error = ""
  /\ again = NotRun
  /\ original = OriginalNotRun(input)

\* _extractExportedComponents applied to the tree it returned
ReExtract ==
  /\ pc = "extracted"
  /\ ~again.ran
  /\ LET r == ExtractExportedComponents(extracted)
     IN again' = [ran |-> TRUE, threw |-> r.threw, tree |-> r.tree, total |-> r.total]
  /\ UNCHANGED <<pc, input, verbose, result, manifest, extracted, totalFound,
                 writes, outputFile, stdout, stderr, exitCode, error, original>>

NextFilter ==
  \/ ExtractComponents
  \/ ReExtract

SpecFilter == InitFilter /\ [][NextFilter]_vars

(***************************************************************************)
(* The run of the original extractor on the same input and an output path  *)
(* of its own: extractManifest calls the original extract, which returns   *)
(* to the event loop at its three awaits.                                  *)
(***************************************************************************)
\* A rejected await or a throw inside the original extract; reads is the
\* property whose read threw a TypeError.
OriginalThrow(message, reads) ==
  [original EXCEPT !.pc = "caught", !.error = message, !.reads = reads]

OriginalUnchanged ==
  UNCHANGED <<pc, input, verbose, result, manifest, extracted, totalFound,
              writes, outputFile, stdout, stderr, exitCode, error, again>>

\* extract up to the first await: the verbose line, fs.readFile
OriginalReadFile ==
  /\ original.pc = "start"
  /\ LET out == LogIfVerbose(verbose, original.stdout,
                             <<Line("Reading AndroidManifest.xml")>>)
     IN original' =
          IF input.readable
          THEN [original EXCEPT !.pc = "read", !.stdout = out]
          ELSE [OriginalThrow("ENOENT", "") EXCEPT !.stdout = out]
  /\ OriginalUnchanged

\* this.parser.parseStringPromise(xmlContent)
OriginalParseXml ==
  /\ original.pc = "read"
  /\ original' =
       IF input.wellFormed
       THEN [original EXCEPT !.pc = "parsed", !.result = ParseString(input.root)]
       ELSE OriginalThrow("parse error", "")
  /\ OriginalUnchanged

\* extract after the second await: result.manifest is read without ?., so
\* a null result throws a TypeError; then the root check, the filter,
\* buildObject and the call of fs.writeFile.
OriginalExtractComponents ==
  /\ original.pc = "parsed"
  /\ original' =
       IF IsNullish(original.result) THEN OriginalThrow("TypeError", "manifest")
       ELSE IF ~Truthy(Get(original.result, "manifest"))
       THEN OriginalThrow(NoManifestMessage, "")
       ELSE LET r == OriginalExtractExportedComponents(Get(original.result, "manifest"))
            IN IF r.threw THEN OriginalThrow("TypeError", "$")
               ELSE [original EXCEPT
                       !.pc = "extracted", !.tree = r.tree, !.total = r.total,
                       !.stdout = LogIfVerbose(verbose, original.stdout, r.lines)]
  /\ OriginalUnchanged

\* fs.writeFile(outputPath, outputXml), first part: the open
OriginalOpenOutputFile ==
  /\ original.pc = "extracted"
  /\ original' =
       IF input.writable
       THEN [original EXCEPT !.pc = "opened", !.outputFile = EmptyFile]
       ELSE OriginalThrow("EACCES", "")
  /\ OriginalUnchanged

\* fs.writeFile, one write call
OriginalWriteOutputFile ==
  /\ original.pc \in {"opened", "writing"}
  /\ LET w == WriteCall(original.outputFile, BuildObject(original.tree), input)
     IN original' =
          IF w.outcome = "EFBIG" THEN OriginalThrow("EFBIG", "")
          ELSE IF w.outcome = "all"
          THEN [original EXCEPT
                  !.pc = "flushed",
                  !.writes = Append(original.writes, BuildObject(original.tree)),
                  !.outputFile = w.file]
          ELSE [original EXCEPT !.pc = "writing", !.outputFile = w.file]
  /\ OriginalUnchanged

\* extract after the third await: the last line of a verbose run
OriginalLogOutputWritten ==
  /\ original.pc = "flushed"
  /\ original' =
       [original EXCEPT
          !.pc = "written",
          !.stdout = LogIfVerbose(verbose, original.stdout, <<Line("Output written")>>)]
  /\ OriginalUnchanged

\* extractManifest after the original extract resolved
OriginalCliSuccess ==
  /\ original.pc = "written"
  /\ original' =
       [original EXCEPT
          !.pc = "done",
          !.stdout = Append(original.stdout, Line("Exported components extracted"))]
  /\ OriginalUnchanged

\* extractManifest's catch block
OriginalCliError ==
  /\ original.pc = "caught"
  /\ original' =
       [original EXCEPT
          !.pc = "exited", !.exitCode = 1,
          !.stderr = Append(original.stderr, original.error)]
  /\ OriginalUnchanged

NextBoth ==
  \/ ReadFile
  \/ ParseXml
  \/ FindManifestRoot
  \/ ExtractComponents
  \/ OpenOutputFile
  \/ WriteOutputFile
  \/ LogOutputWritten
  \/ CliSuccess
  \/ CliError
  \/ OriginalReadFile
  \/ OriginalParseXml
  \/ OriginalExtractComponents
  \/ OriginalOpenOutputFile
  \/ OriginalWriteOutputFile
  \/ OriginalLogOutputWritten
  \/ OriginalCliSuccess
  \/ OriginalCliError

SpecBoth == Init /\ [][NextBoth]_vars

(***************************************************************************)
(* Vocabulary of the properties.                                           *)
(***************************************************************************)
\* The filter has returned a tree.
Filtered == pc = "extracted"

\* The elements stored under key k of node, as a sequence: none when the
\* key is absent, one when xml2js stored the element itself.
ElementsOf(node, k) ==
  IF ~HasKey(node, k) THEN <<>>
  ELSE IF IsArr(node.val[k]) THEN node.val[k].items
  ELSE <<node.val[k]>>

SourceComponents(k) == ElementsOf(Get(manifest, "application"), k)
OutputComponents(k) == ElementsOf(Get(extracted, "application"), k)

InSeq(x, seq) == \E i \in DOMAIN seq : seq[i] = x

\* The android:exported attribute of a component, Undef when it has none.
ExportedOf(c) == Get(Get(c, "$"), EXPORTED)

\* The component owns at least one intent-filter child element.
OwnsIntentFilter(c) == HasKey(c, "intent-filter")

\* The inclusion rule of the specification.
Qualifies(c) ==
  \/ ExportedOf(c) = Str("true")
  \/ ExportedOf(c) # Str("false") /\ OwnsIntentFilter(c)

\* An attribute mapping; an element without attributes has the empty one.
AttrMap(v) == IF IsObj(v) THEN v ELSE EmptyObj

RECURSIVE SumLen(_, _)
SumLen(f, S) ==
  IF S = {} THEN 0
  ELSE LET k == CHOOSE x \in S : TRUE IN Len(f[k]) + SumLen(f, S \ {k})

\* The keys of the output application besides "$", in insertion order.
OutputKindOrder ==
  SelectSeq(Get(extracted, "application").keys, LAMBDA k : k # "$")

(***************************************************************************)
(* C1: a component whose android:exported attribute is "false" is absent   *)
(* from the output of its kind, with or without an intent-filter child.    *)
(***************************************************************************)
C1_ExportedFalseNeverSelected ==
  Filtered =>
    \A k \in Kinds : \A i \in DOMAIN SourceComponents(k) :
      LET c == SourceComponents(k)[i]
      IN ExportedOf(c) = Str("false") => ~InSeq(c, OutputComponents(k))

C1_Witness ==
  /\ Filtered
  /\ \E k \in Kinds : \E i \in DOMAIN SourceComponents(k) :
       LET c == SourceComponents(k)[i]
       IN /\ ExportedOf(c) = Str("false")
          /\ OwnsIntentFilter(c)
          /\ ~InSeq(c, OutputComponents(k))

(***************************************************************************)
(* C2: a component whose android:exported attribute is neither "true" nor  *)
(* "false" is in the output if and only if it owns at least one            *)
(* intent-filter child, whatever the content of that child.                *)
(***************************************************************************)
C2_UnsetSelectedIffIntentFilter ==
  Filtered =>
    \A k \in Kinds : \A i \in DOMAIN SourceComponents(k) :
      LET c == SourceComponents(k)[i]
      IN ExportedOf(c) \notin {Str("true"), Str("false")} =>
           (InSeq(c, OutputComponents(k)) <=> OwnsIntentFilter(c))

(***************************************************************************)
(* C3: a component whose android:exported attribute is "true" is in the    *)
(* output of its kind with the attributes and children of the source,      *)
(* with or without an intent-filter child.                                 *)
(***************************************************************************)
C3_ExportedTrueAlwaysSelected ==
  Filtered =>
    \A k \in Kinds : \A i \in DOMAIN SourceComponents(k) :
      LET c == SourceComponents(k)[i]
      IN ExportedOf(c) = Str("true") => InSeq(c, OutputComponents(k))

C3_Witness ==
  /\ Filtered
  /\ \E k \in Kinds : \E i \in DOMAIN SourceComponents(k) :
       LET c == SourceComponents(k)[i]
       IN /\ ExportedOf(c) = Str("true")
          /\ ~OwnsIntentFilter(c)
          /\ InSeq(c, OutputComponents(k))
  /\ \E k \in Kinds : \E i \in DOMAIN SourceComponents(k) :
       LET c == SourceComponents(k)[i]
       IN /\ ExportedOf(c) = Str("true")
          /\ OwnsIntentFilter(c)
          /\ HasKey(c, "meta-data")
          /\ InSeq(c, OutputComponents(k))

(***************************************************************************)
(* C4: on a manifest without application element the filter raises no      *)
(* error and returns a tree without any component, and a count of 0.       *)
(***************************************************************************)
C4_NoApplicationIsEmpty ==
  (pc # "validated" /\ ~HasKey(manifest, "application")) =>
    /\ Filtered
    /\ \A k \in Kinds : OutputComponents(k) = <<>>
    /\ totalFound = 0

(***************************************************************************)
(* C5: the output has the attribute mappings of the manifest and of the    *)
(* application, and every permission and uses-permission element of the    *)
(* input in source order, one or several.                                  *)
(***************************************************************************)
C5_ManifestLevelDataCarried ==
  Filtered =>
    /\ AttrMap(Get(extracted, "$")) = AttrMap(Get(manifest, "$"))
    /\ AttrMap(Get(Get(extracted, "application"), "$"))
         = AttrMap(Get(Get(manifest, "application"), "$"))
    /\ \A i \in DOMAIN PermissionTypes :
         ElementsOf(extracted, PermissionTypes[i]) = ElementsOf(manifest, PermissionTypes[i])

(***************************************************************************)
(* C6: the output file is written at most once and only after the read,    *)
(* the parse, the manifest root check and the filter succeeded, with the   *)
(* rendered filtered tree; when one of them fails nothing is written, the  *)
(* CLI prints the error message and exits with status 1, and it never      *)
(* prints the success line.                                                *)
(***************************************************************************)
SuccessLine == Line("Exported components extracted")

\* The run cannot reach the write: unreadable input, malformed markup, no
\* manifest root, or a manifest on which the filter throws.
StepFails ==
  \/ ~input.readable
  \/ ~input.wellFormed
  \/ ~HasKey(ParseString(input.root), "manifest")
  \/ Get(ParseString(input.root), "manifest") = Str("")
  \/ ~HasKey(Get(ParseString(input.root), "manifest"), "application")

C6_WriteOnlyAfterSuccess ==
  /\ Len(writes) <= 1
  /\ writes # <<>> =>
       /\ ~StepFails
       /\ pc \in {"flushed", "written", "done"}
       /\ manifest = ParseElem(input.root)
       /\ writes = <<BuildObject(extracted)>>
       /\ outputFile = DocumentFile(BuildObject(extracted))
  /\ outputFile # OutputBefore(input) =>
       /\ ~StepFails
       /\ extracted = ExtractExportedComponents(ParseElem(input.root)).tree
       /\ error \in {"", "EFBIG"}
       /\ outputFile.holds \in {"document", "part of the document"} =>
            outputFile.doc = BuildObject(extracted)
  /\ StepFails =>
       /\ writes = <<>>
       /\ outputFile = OutputBefore(input)
       /\ pc \in {"start", "read", "parsed", "validated", "caught", "exited"}
  /\ pc \in {"caught", "exited"} =>
       /\ writes = <<>>
       /\ error # ""
       /\ ~InSeq(SuccessLine, stdout)
  /\ pc = "exited" => exitCode = 1 /\ stderr = <<error>>
  /\ pc # "exited" => exitCode = 0 /\ stderr = <<>>
  /\ InSeq(SuccessLine, stdout) => pc = "done" /\ Len(writes) = 1

C6_Witness ==
  /\ pc = "exited"
  /\ error = "TypeError"
  /\ input.writable /\ input.room > input.chunks /\ input.earlier
  /\ outputFile = EarlierOutput
  /\ writes = <<>>
  /\ exitCode = 1

\* The steps of C6 succeeded and the write itself failed after the open:
\* the run fails and the output path, whatever it held, holds no byte or
\* the first bytes of the document.
C6_FailedWriteLeavesPartialFile ==
  (pc \in {"caught", "exited"} /\ error = "EFBIG") =>
    /\ outputFile = IF input.room = 0 THEN EmptyFile
                    ELSE PartOfDocument(BuildObject(extracted), input.room)
    /\ input.room <= input.chunks
    /\ writes = <<>>
    /\ ~StepFails

\* A document of several chunks is in the file chunk after chunk.
C6_WrittenInChunks ==
  pc = "writing" =>
    /\ outputFile = PartOfDocument(BuildObject(extracted), CallsWritten(outputFile))
    /\ CallsWritten(outputFile) \in 1..input.chunks
    /\ writes = <<>>

\* The document is in the file one step before the verbose line about it.
C6_LoggedAfterWritten ==
  InSeq(Line("Output written"), stdout) =>
    pc \in {"written", "done"} /\ Len(writes) = 1

(***************************************************************************)
(* C7: the filter applied to a tree it returned returns the same tree and  *)
(* the same count.                                                         *)
(***************************************************************************)
C7_Idempotent ==
  again.ran =>
    /\ ~again.threw
    /\ again.tree = extracted
    /\ again.total = totalFound

C7_Witness ==
  /\ again.ran
  /\ again.tree = extracted
  /\ totalFound >= 2
  /\ Len(ElementsOf(manifest, "permission")) = 1
  /\ \E k \in Kinds : Len(SourceComponents(k)) > Len(OutputComponents(k))

(***************************************************************************)
(* C8: the output sequence of each kind is the subsequence of the source   *)
(* sequence made of the qualifying components, and the kinds of the output *)
(* application are in the order activity, service, receiver, provider.     *)
(***************************************************************************)
C8_OrderPreserved ==
  Filtered =>
    /\ \A k \in Kinds : OutputComponents(k) = SelectSeq(SourceComponents(k), Qualifies)
    /\ OutputKindOrder
         = SelectSeq(COMPONENT_TYPES, LAMBDA k : OutputComponents(k) # <<>>)

(***************************************************************************)
(* C9: the output application has no empty sequence of a kind: a kind is   *)
(* a key of it if and only if a source component of the kind qualifies.    *)
(***************************************************************************)
C9_EmptyKindsOmitted ==
  Filtered =>
    \A k \in Kinds :
      /\ HasKey(Get(extracted, "application"), k) => OutputComponents(k) # <<>>
      /\ HasKey(Get(extracted, "application"), k)
           <=> \E i \in DOMAIN SourceComponents(k) : Qualifies(SourceComponents(k)[i])

(***************************************************************************)
(* C10: the filter returns, together with the tree, the total count of     *)
(* the qualifying components, and this count is the sum over the four      *)
(* kinds of the lengths of the output sequences.                           *)
(***************************************************************************)
\* A JavaScript number.
Num(n) == [t |-> "number", n |-> n]

\* The sum over the four kinds of the lengths of the output sequences.
OutputTotal == SumLen([k \in Kinds |-> OutputComponents(k)], Kinds)

\* The value v hands the count n to the caller next to the tree: as an
\* entry of an array or as a property of an object.
ReturnsCount(v, n) ==
  \/ IsArr(v) /\ InSeq(Num(n), v.items)
  \/ IsObj(v) /\ \E k \in DOMAIN v.val : v.val[k] = Num(n)

\* extracted is the value of the return statement of the filter.
C10_CountReturnedWithTree ==
  Filtered => ReturnsCount(extracted, OutputTotal)

\* What the code does with the count: totalFound is a local variable of
\* the filter, equal to the sum of the lengths; the filter returns the
\* tree alone.
C10_LocalCountIsSumOfLengths ==
  Filtered =>
    /\ totalFound = OutputTotal
    /\ \A n \in 0..(OutputTotal + 1) : ~ReturnsCount(extracted, n)

C10_LocalCountWitness ==
  /\ Filtered
  /\ totalFound = 2
  /\ Len(OutputComponents("activity")) = 1
  /\ Len(OutputComponents("service")) = 0
  /\ Len(OutputComponents("receiver")) = 1
  /\ Len(OutputComponents("provider")) = 0
  /\ Len(SourceComponents("activity")) = 2
  /\ Len(SourceComponents("service")) = 1

\* The count reaches the outside only on the summary line of a verbose
\* run; a run that is not verbose never reports it.
SummaryLines ==
  SelectSeq(stdout, LAMBDA l : l.msg = "Found exported components")

C10_CountOnlyOnVerboseSummaryLine ==
  pc \in {"extracted", "opened", "writing", "flushed", "written", "done"} =>
    IF verbose
    THEN SummaryLines = <<[Line("Found exported components") EXCEPT
                             !.n = SumLen([k \in Kinds |-> OutputComponents(k)], Kinds)]>>
    ELSE SummaryLines = <<>>

(***************************************************************************)
(* How far C2, C5, C8 and C9 hold: the code tests an intent-filter and a   *)
(* permission by the truth value of what xml2js stored, and a lone         *)
(* element without attributes and children is stored as the empty string.  *)
(***************************************************************************)
\* The element stored under key k of node is a lone empty element.
LoneEmpty(node, k) == Get(node, k) = Str("")

\* C2 for the components whose intent-filter is not a lone empty element.
C2_HoldsUnlessLoneEmptyIntentFilter ==
  Filtered =>
    \A k \in Kinds : \A i \in DOMAIN SourceComponents(k) :
      LET c == SourceComponents(k)[i]
      IN (ExportedOf(c) \notin {Str("true"), Str("false")}
            /\ ~LoneEmpty(c, "intent-filter")) =>
           (InSeq(c, OutputComponents(k)) <=> OwnsIntentFilter(c))

\* C5 for the permission types that are not a lone empty element.
C5_HoldsUnlessLoneEmptyPermission ==
  Filtered =>
    /\ AttrMap(Get(extracted, "$")) = AttrMap(Get(manifest, "$"))
    /\ AttrMap(Get(Get(extracted, "application"), "$"))
         = AttrMap(Get(Get(manifest, "application"), "$"))
    /\ \A i \in DOMAIN PermissionTypes :
         ~LoneEmpty(manifest, PermissionTypes[i]) =>
           ElementsOf(extracted, PermissionTypes[i])
             = ElementsOf(manifest, PermissionTypes[i])

\* The inclusion rule with the lone empty intent-filter counted as absent.
QualifiesUnlessLoneEmpty(c) ==
  \/ ExportedOf(c) = Str("true")
  \/ ExportedOf(c) # Str("false") /\ OwnsIntentFilter(c)
       /\ ~LoneEmpty(c, "intent-filter")

\* C8 and C9 with that rule.
C8_HoldsUnlessLoneEmptyIntentFilter ==
  Filtered =>
    /\ \A k \in Kinds :
         OutputComponents(k) = SelectSeq(SourceComponents(k), QualifiesUnlessLoneEmpty)
    /\ OutputKindOrder
         = SelectSeq(COMPONENT_TYPES, LAMBDA k : OutputComponents(k) # <<>>)

C9_HoldsUnlessLoneEmptyIntentFilter ==
  Filtered =>
    \A k \in Kinds :
      /\ HasKey(Get(extracted, "application"), k) => OutputComponents(k) # <<>>
      /\ HasKey(Get(extracted, "application"), k)
           <=> \E i \in DOMAIN SourceComponents(k) :
                 QualifiesUnlessLoneEmpty(SourceComponents(k)[i])

(***************************************************************************)
(* C11: on every input (an empty document, a document without manifest     *)
(* root and a manifest without application included) the refactored and    *)
(* the original extractor either both fail, with the same error, or both   *)
(* succeed, with the same output tree and the same count.                  *)
(***************************************************************************)
\* Both runs have ended.
Settled == pc \in {"done", "exited"} /\ original.pc \in {"done", "exited"}
Rejected == pc = "exited"

SameOutcome ==
  /\ original.pc = pc
  /\ original.exitCode = exitCode
  /\ original.stderr = stderr
  /\ original.outputFile = outputFile
  /\ pc = "done" =>
       /\ original.tree = extracted
       /\ original.total = totalFound
       /\ original.writes = writes

C11_RefactorEquivalent ==
  Settled => SameOutcome

\* The parser resolves with null on a blank text.
BlankDocument ==
  input.readable /\ input.wellFormed /\ input.root = NoRoot

\* C11 on every input but the blank text, where the original reads
\* result.manifest of null and the refactored extractor reports the missing
\* manifest root.
C11_HoldsUnlessBlankDocument ==
  (Settled /\ ~BlankDocument) => SameOutcome

\* On the blank text both fail, with different errors.
C11_BlankDocumentErrorsDiffer ==
  (Settled /\ BlankDocument) =>
    /\ Rejected /\ error = NoManifestMessage
    /\ original.pc = "exited" /\ original.error = "TypeError"
    /\ original.reads = "manifest"

\* What a verbose run prints is the same, except on a manifest without
\* application (the refactored extractor logs the search before it throws)
\* and for the lines of the providers.
C11_LinesDifferOnlyForProvidersAndNoApplication ==
  (Settled
     /\ ~(Rejected /\ error = "TypeError")
     /\ ~HasKey(GetOpt(original.tree, "application"), "provider")) =>
    stdout = original.stdout

====
